---- MODULE Spec2Model ----
(***************************************************************************)
(* A model of SceneManager (SceneManager.cpp): the texture registry, the   *)
(* material list, and the calls the scene manager issues to its            *)
(* collaborators (OpenGL, stb_image, ShaderManager, ShapeMeshes).          *)
(*                                                                         *)
(* Every method of the class is an operator from a world record (the       *)
(* object's fields plus the collaborators' state that the methods touch)   *)
(* to the world after the call.  One action per method applies it.         *)
(*                                                                         *)
(* Floating point literals are kept as integers: the literal times 100 (0.95f is 95).  *)
(***************************************************************************)
EXTENDS Integers, Sequences, FiniteSets, TLC

\* "There are up to 16 slots" (BindGLTextures, LoadSceneTextures): the
\* capacity of m_textureIDs.
MaxTextureSlots == 16

\* Model bounds.
\* No call is made that would take m_loadedTextures above MaxLoaded; the memory
\* behind m_textureIDs is modelled up to that index.
MaxLoaded == 21
\* DefineObjectMaterials is not called once the list holds MaxMaterials presets.
MaxMaterials == 6
\* DestroyGLTextures is not called once OpenGL has handed out MaxGLNames names.
MaxGLNames == 40
\* The number of method calls made on the object in one run.
MaxCalls == 3

VARIABLES
    m_loadedTextures,   \* int: number of registered textures
    m_textureIDs,       \* TEXTURE_INFO[16] and the memory behind it: index -> [ID, tag]
    m_objectMaterials,  \* std::vector<OBJECT_MATERIAL>
    m_pShaderManager,   \* the ShaderManager pointer ("NULL" or an object)
    glTextures,         \* OpenGL: texture names generated and not deleted
    glNextName,         \* OpenGL: the next unused texture name
    glTextureUnits,     \* OpenGL: texture unit -> texture name bound to it (0: none)
    imageBuffers,       \* stb_image: buffers returned by stbi_load and not freed
    meshLoads,          \* ShapeMeshes: mesh -> number of times it was loaded
    calls,              \* the calls the last method made on ShaderManager/ShapeMeshes
    lastOp,             \* the last method called, its arguments and what it returned
    nCalls              \* number of method calls made so far

vars == << m_loadedTextures, m_textureIDs, m_objectMaterials, m_pShaderManager,
           glTextures, glNextName, glTextureUnits, imageBuffers, meshLoads,
           calls, lastOp, nCalls >>

Meshes == {"Plane", "TaperedCylinder", "Torus", "Cylinder", "Box", "Prism"}

MemIndex == 0 .. (MaxLoaded - 1)

\* What a TEXTURE_INFO holds before anything is stored in it.
EmptyTextureInfo == [ID |-> 0, tag |-> ""]

NoMaterial ==
    [tag |-> "", ambientColor |-> <<>>, ambientStrength |-> 0,
     diffuseColor |-> <<>>, specularColor |-> <<>>, shininess |-> 0]

\* The world a method runs on: the fields of the object and of its
\* collaborators, the calls made so far by this method, and the bool a
\* bool method returns.
World ==
    [m_loadedTextures |-> m_loadedTextures,
     m_textureIDs |-> m_textureIDs,
     m_objectMaterials |-> m_objectMaterials,
     m_pShaderManager |-> m_pShaderManager,
     glTextures |-> glTextures,
     glNextName |-> glNextName,
     glTextureUnits |-> glTextureUnits,
     imageBuffers |-> imageBuffers,
     meshLoads |-> meshLoads,
     calls |-> << >>,
     ret |-> FALSE]

\* A call on a collaborator, appended to the method's call log.
Emit(w, fn, name, index, field, args) ==
    [w EXCEPT !.calls = Append(@, [fn |-> fn, name |-> name, index |-> index,
                                   field |-> field, args |-> args])]

(***************************************************************************)
(* CreateGLTexture(filename, tag).  image is what stbi_load produced: 0 for *)
(* a NULL pointer, otherwise the channel count of the loaded image.        *)
(* A store at an index of MaxTextureSlots or more is outside               *)
(* m_textureIDs: lands says whether the memory behind the array keeps what *)
(* was stored there (TRUE) or not (FALSE).                                 *)
(***************************************************************************)
StoreTextureInfo(ids, index, info, lands) ==
    IF index < MaxTextureSlots \/ lands THEN [ids EXCEPT ![index] = info] ELSE ids

\* CreateGLTexture with the registration done for every loaded image, whatever
\* its channel count.
CreateGLTexture_Mut(w, filename, tag, image, lands) ==
    IF image # 0
    THEN [w EXCEPT
            !.glTextures = @ \cup {w.glNextName},
            !.glNextName = @ + 1,
            !.m_textureIDs = StoreTextureInfo(@, w.m_loadedTextures,
                                 [ID |-> w.glNextName, tag |-> tag], lands),
            !.m_loadedTextures = @ + 1,
            !.ret = (image = 3 \/ image = 4)]
    ELSE [w EXCEPT !.ret = FALSE]

CreateGLTexture(w, filename, tag, image, lands) ==
    IF image # 0
    THEN LET textureID == w.glNextName
             \* stbi_load returned a buffer; glGenTextures(1, &textureID)
             w1 == [w EXCEPT !.imageBuffers = @ + 1,
                             !.glTextures = @ \cup {textureID},
                             !.glNextName = @ + 1]
         IN  IF image = 3 \/ image = 4
             THEN [w1 EXCEPT
                     !.imageBuffers = @ - 1,       \* stbi_image_free(image)
                     !.m_textureIDs = StoreTextureInfo(@, w1.m_loadedTextures,
                                          [ID |-> textureID, tag |-> tag], lands),
                     !.m_loadedTextures = @ + 1,
                     !.ret = TRUE]
             ELSE [w1 EXCEPT !.ret = FALSE]
    ELSE [w EXCEPT !.ret = FALSE]

\* BindGLTextures(): unit i gets m_textureIDs[i].ID for every i < m_loadedTextures.
\* BindGLTextures binding texture i to unit i + 1.
BindGLTextures_Mut(w) ==
    [w EXCEPT !.glTextureUnits =
        [u \in MemIndex |->
            IF 0 < u /\ u <= w.m_loadedTextures THEN w.m_textureIDs[u - 1].ID ELSE @[u]]]

BindGLTextures(w) ==
    [w EXCEPT !.glTextureUnits =
        [u \in MemIndex |-> IF u < w.m_loadedTextures THEN w.m_textureIDs[u].ID ELSE @[u]]]

\* DestroyGLTextures(): glGenTextures(1, &m_textureIDs[i].ID) for every
\* i < m_loadedTextures; the i-th call hands out name glNextName + i.
DestroyGLTextures(w, lands) ==
    [w EXCEPT
        !.m_textureIDs =
            [i \in MemIndex |->
                IF i < w.m_loadedTextures /\ (i < MaxTextureSlots \/ lands)
                THEN [@[i] EXCEPT !.ID = w.glNextName + i]
                ELSE @[i]],
        !.glTextures = @ \cup {w.glNextName + i : i \in 0 .. (w.m_loadedTextures - 1)},
        !.glNextName = @ + w.m_loadedTextures]

\* FindTextureID(tag): the while loop, from index.
RECURSIVE FindTextureIDFrom(_, _, _)
FindTextureIDFrom(w, tag, index) ==
    IF index < w.m_loadedTextures
    THEN IF w.m_textureIDs[index].tag = tag
         THEN w.m_textureIDs[index].ID
         ELSE FindTextureIDFrom(w, tag, index + 1)
    ELSE -1

FindTextureID(w, tag) == FindTextureIDFrom(w, tag, 0)

\* FindTextureSlot(tag): the while loop, from index.
\* FindTextureSlot's loop without the bFound test: the last match wins.
FindTextureSlotFrom_Mut(w, tag, index) ==
    LET matches == {i \in index .. (w.m_loadedTextures - 1) : w.m_textureIDs[i].tag = tag}
    IN  IF matches = {} THEN -1 ELSE CHOOSE i \in matches : \A j \in matches : j <= i

RECURSIVE FindTextureSlotFrom(_, _, _)
FindTextureSlotFrom(w, tag, index) ==
    IF index < w.m_loadedTextures
    THEN IF w.m_textureIDs[index].tag = tag
         THEN index
         ELSE FindTextureSlotFrom(w, tag, index + 1)
    ELSE -1

FindTextureSlot(w, tag) == FindTextureSlotFrom(w, tag, 0)

\* FindMaterial(tag, material): material is the caller's object as passed in;
\* the result is the returned bool and the caller's object afterwards.
RECURSIVE FindMaterialFrom(_, _, _, _)
FindMaterialFrom(w, tag, material, index) ==
    IF index < Len(w.m_objectMaterials)
    THEN IF w.m_objectMaterials[index + 1].tag = tag
         THEN [material EXCEPT
                 !.ambientColor = w.m_objectMaterials[index + 1].ambientColor,
                 !.ambientStrength = w.m_objectMaterials[index + 1].ambientStrength,
                 !.diffuseColor = w.m_objectMaterials[index + 1].diffuseColor,
                 !.specularColor = w.m_objectMaterials[index + 1].specularColor,
                 !.shininess = w.m_objectMaterials[index + 1].shininess]
         ELSE FindMaterialFrom(w, tag, material, index + 1)
    ELSE material

FindMaterial(w, tag, material) ==
    IF Len(w.m_objectMaterials) = 0
    THEN [ret |-> FALSE, material |-> material]
    ELSE [ret |-> TRUE, material |-> FindMaterialFrom(w, tag, material, 0)]

\* SetTransformations(scaleXYZ, Xrot, Yrot, Zrot, positionXYZ): the model
\* matrix is kept as the nine numbers it is computed from.
SetTransformations(w, scaleXYZ, XrotationDegrees, YrotationDegrees, ZrotationDegrees, positionXYZ) ==
    LET modelView == positionXYZ \o <<XrotationDegrees, YrotationDegrees, ZrotationDegrees>> \o scaleXYZ
        w1 == Emit(w, "SetTransformations", "", -1, "", modelView)
    IN  IF w.m_pShaderManager # "NULL"
        THEN Emit(w1, "setMat4Value", "model", -1, "", modelView)
        ELSE w1

SetShaderColor(w, redColorValue, greenColorValue, blueColorValue, alphaValue) ==
    LET currentColor == <<redColorValue, greenColorValue, blueColorValue, alphaValue>>
        w1 == Emit(w, "SetShaderColor", "", -1, "", currentColor)
    IN  IF w.m_pShaderManager # "NULL"
        THEN Emit(Emit(w1, "setIntValue", "bUseTexture", -1, "", <<0>>),
                  "setVec4Value", "objectColor", -1, "", currentColor)
        ELSE w1

\* SetShaderTexture registering a tag it does not find.
SetShaderTexture_Mut(w, textureTag) ==
    IF FindTextureSlot(w, textureTag) = -1
    THEN [w EXCEPT !.m_textureIDs[w.m_loadedTextures].tag = textureTag,
                   !.m_loadedTextures = @ + 1]
    ELSE w

SetShaderTexture(w, textureTag) ==
    LET w1 == Emit(w, "SetShaderTexture", textureTag, -1, "", << >>)
    IN  IF w.m_pShaderManager # "NULL"
        THEN Emit(Emit(w1, "setIntValue", "bUseTexture", -1, "", <<1>>),
                  "setSampler2DValue", "objectTexture", -1, "",
                  <<FindTextureSlot(w1, textureTag)>>)
        ELSE w1

SetTextureUVScale(w, u, v) ==
    LET w1 == Emit(w, "SetTextureUVScale", "", -1, "", <<u, v>>)
    IN  IF w.m_pShaderManager # "NULL"
        THEN Emit(w1, "setVec2Value", "UVscale", -1, "", <<u, v>>)
        ELSE w1

\* SetShaderMaterial(materialTag): uninit is what the local OBJECT_MATERIAL
\* holds before FindMaterial is called on it.
SetShaderMaterial(w, materialTag, uninit) ==
    LET w1 == Emit(w, "SetShaderMaterial", materialTag, -1, "", << >>)
    IN  IF Len(w.m_objectMaterials) > 0
        THEN LET found == FindMaterial(w1, materialTag, uninit)
                 material == found.material
             IN  IF found.ret = TRUE
                 THEN Emit(Emit(Emit(Emit(Emit(w1,
                        "setVec3Value", "material", -1, "ambientColor", material.ambientColor),
                        "setFloatValue", "material", -1, "ambientStrength", <<material.ambientStrength>>),
                        "setVec3Value", "material", -1, "diffuseColor", material.diffuseColor),
                        "setVec3Value", "material", -1, "specularColor", material.specularColor),
                        "setFloatValue", "material", -1, "shininess", <<material.shininess>>)
                 ELSE w1
        ELSE w1

\* The ten CreateGLTexture calls of LoadSceneTextures, in order.
SceneTextures ==
    << [filename |-> "granite1.jpg", tag |-> "counter"],
       [filename |-> "tiles.jpg", tag |-> "wall"],
       [filename |-> "Rubiks_white.jpg", tag |-> "box_white"],
       [filename |-> "Rubiks_red.jpg", tag |-> "box_red"],
       [filename |-> "Rubiks_blue.jpg", tag |-> "box_blue"],
       [filename |-> "cardboard.jpg", tag |-> "paperbag"],
       [filename |-> "wood.jpg", tag |-> "bagclip"],
       [filename |-> "bagtag.jpg", tag |-> "label"],
       [filename |-> "wax.jpg", tag |-> "candlewax"],
       [filename |-> "ceramic.jpg", tag |-> "mug"] >>

\* LoadSceneTextures(): images[k] is what stbi_load produces in the k-th call.
\* The loads of LoadSceneTextures given up at the first one that fails.
RECURSIVE LoadSceneTexturesFrom_Mut(_, _, _, _)
LoadSceneTexturesFrom_Mut(w, images, lands, k) ==
    IF k > Len(SceneTextures)
    THEN w
    ELSE LET w1 == CreateGLTexture(w, SceneTextures[k].filename, SceneTextures[k].tag,
                                   images[k], lands)
         IN  IF w1.ret THEN LoadSceneTexturesFrom_Mut(w1, images, lands, k + 1) ELSE w1

RECURSIVE LoadSceneTexturesFrom(_, _, _, _)
LoadSceneTexturesFrom(w, images, lands, k) ==
    IF k > Len(SceneTextures)
    THEN w
    ELSE LoadSceneTexturesFrom(
             CreateGLTexture(w, SceneTextures[k].filename, SceneTextures[k].tag,
                             images[k], lands),
             images, lands, k + 1)

LoadSceneTextures(w, images, lands) ==
    BindGLTextures(LoadSceneTexturesFrom(w, images, lands, 1))

\* DefineObjectMaterials(): three push_back calls.
glassMaterial ==
    [tag |-> "glass", ambientColor |-> <<70, 70, 70>>, ambientStrength |-> 40,
     diffuseColor |-> <<80, 80, 80>>, specularColor |-> <<70, 70, 70>>,
     shininess |-> 8500]

ceramicMaterial ==
    [tag |-> "ceramic", ambientColor |-> <<30, 30, 30>>, ambientStrength |-> 50,
     diffuseColor |-> <<40, 40, 40>>, specularColor |-> <<20, 20, 20>>,
     shininess |-> 2500]

cardboardMaterial ==
    [tag |-> "cardboard", ambientColor |-> <<20, 20, 20>>, ambientStrength |-> 20,
     diffuseColor |-> <<10, 10, 10>>, specularColor |-> <<0, 0, 0>>,
     shininess |-> 0]

\* DefineObjectMaterials pushing the glass preset in place of the ceramic one.
DefineObjectMaterials_Mut(w) ==
    [w EXCEPT !.m_objectMaterials =
        Append(Append(Append(@, glassMaterial), glassMaterial), cardboardMaterial)]

DefineObjectMaterials(w) ==
    [w EXCEPT !.m_objectMaterials =
        Append(Append(Append(@, glassMaterial), ceramicMaterial), cardboardMaterial)]

\* SetupSceneLights(): the calls it makes on the shader manager, in order.
SceneLightCalls ==
    << [fn |-> "setBoolValue", name |-> "bUseLighting", index |-> -1, field |-> "", args |-> <<1>>],
       [fn |-> "setVec3Value", name |-> "lightSources", index |-> 0, field |-> "position", args |-> <<0, 1000, 600>>],
       [fn |-> "setVec3Value", name |-> "lightSources", index |-> 0, field |-> "ambientColor", args |-> <<20, 20, 20>>],
       [fn |-> "setVec3Value", name |-> "lightSources", index |-> 0, field |-> "diffuseColor", args |-> <<100, 100, 100>>],
       [fn |-> "setVec3Value", name |-> "lightSources", index |-> 0, field |-> "specularColor", args |-> <<100, 100, 100>>],
       [fn |-> "setFloatValue", name |-> "lightSources", index |-> 0, field |-> "focalStrength", args |-> <<500>>],
       [fn |-> "setFloatValue", name |-> "lightSources", index |-> 0, field |-> "specularIntensity", args |-> <<500>>],
       [fn |-> "setVec3Value", name |-> "lightSources", index |-> 1, field |-> "position", args |-> <<-1000, 1000, 600>>],
       [fn |-> "setVec3Value", name |-> "lightSources", index |-> 1, field |-> "ambientColor", args |-> <<20, 20, 20>>],
       [fn |-> "setVec3Value", name |-> "lightSources", index |-> 1, field |-> "diffuseColor", args |-> <<100, 95, 60>>],
       [fn |-> "setVec3Value", name |-> "lightSources", index |-> 1, field |-> "specularColor", args |-> <<100, 95, 60>>],
       [fn |-> "setFloatValue", name |-> "lightSources", index |-> 1, field |-> "focalStrength", args |-> <<1500>>],
       [fn |-> "setFloatValue", name |-> "lightSources", index |-> 1, field |-> "specularIntensity", args |-> <<500>>],
       [fn |-> "setVec3Value", name |-> "lightSources", index |-> 2, field |-> "position", args |-> <<1000, 1000, 600>>],
       [fn |-> "setVec3Value", name |-> "lightSources", index |-> 2, field |-> "ambientColor", args |-> <<20, 20, 20>>],
       [fn |-> "setVec3Value", name |-> "lightSources", index |-> 2, field |-> "diffuseColor", args |-> <<100, 95, 60>>],
       [fn |-> "setVec3Value", name |-> "lightSources", index |-> 2, field |-> "specularColor", args |-> <<100, 95, 60>>],
       [fn |-> "setFloatValue", name |-> "lightSources", index |-> 2, field |-> "focalStrength", args |-> <<1500>>],
       [fn |-> "setFloatValue", name |-> "lightSources", index |-> 2, field |-> "specularIntensity", args |-> <<500>>] >>

\* SetupSceneLights without its last call (lightSources[2].specularIntensity).
SetupSceneLights_Mut(w) ==
    [w EXCEPT !.calls = @ \o SubSeq(SceneLightCalls, 1, Len(SceneLightCalls) - 1)]

SetupSceneLights(w) == [w EXCEPT !.calls = @ \o SceneLightCalls]

\* m_basicMeshes->Load<...>Mesh()
LoadMesh(w, mesh) == [w EXCEPT !.meshLoads[mesh] = @ + 1]

\* PrepareScene without the LoadPrismMesh call.
PrepareScene_Mut(w, images, lands) ==
    LET w1 == LoadSceneTextures(w, images, lands)
        w2 == DefineObjectMaterials(w1)
        w3 == SetupSceneLights(w2)
        w4 == LoadMesh(w3, "Plane")
        w5 == LoadMesh(w4, "TaperedCylinder")
        w6 == LoadMesh(w5, "Torus")
        w7 == LoadMesh(w6, "Cylinder")
        w8 == LoadMesh(w7, "Box")
    IN  w8

PrepareScene(w, images, lands) ==
    LET w1 == LoadSceneTextures(w, images, lands)
        w2 == DefineObjectMaterials(w1)
        w3 == SetupSceneLights(w2)
        w4 == LoadMesh(w3, "Plane")
        w5 == LoadMesh(w4, "TaperedCylinder")
        w6 == LoadMesh(w5, "Torus")
        w7 == LoadMesh(w6, "Cylinder")
        w8 == LoadMesh(w7, "Box")
        w9 == LoadMesh(w8, "Prism")
    IN  w9

\* m_basicMeshes->Draw<...>Mesh()
DrawPlaneMesh(w) == Emit(w, "DrawPlaneMesh", "Plane", -1, "", << >>)

DrawTaperedCylinderMesh(w) == Emit(w, "DrawTaperedCylinderMesh", "TaperedCylinder", -1, "", << >>)

DrawTorusMesh(w) == Emit(w, "DrawTorusMesh", "Torus", -1, "", << >>)

DrawCylinderMesh(w) == Emit(w, "DrawCylinderMesh", "Cylinder", -1, "", << >>)

DrawBoxMesh(w) == Emit(w, "DrawBoxMesh", "Box", -1, "", << >>)

DrawPrismMesh(w) == Emit(w, "DrawPrismMesh", "Prism", -1, "", << >>)

\* One call of a Render method's body, made on world w.
Perform(w, call, uninit) ==
    CASE call.op = "SetTransformations" ->
            SetTransformations(w, SubSeq(call.args, 1, 3), call.args[4], call.args[5],
                               call.args[6], SubSeq(call.args, 7, 9))
      [] call.op = "SetShaderColor" ->
            SetShaderColor(w, call.args[1], call.args[2], call.args[3], call.args[4])
      [] call.op = "SetShaderTexture" -> SetShaderTexture(w, call.tag)
      [] call.op = "SetTextureUVScale" -> SetTextureUVScale(w, call.args[1], call.args[2])
      [] call.op = "SetShaderMaterial" -> SetShaderMaterial(w, call.tag, uninit)
      [] call.op = "DrawPlaneMesh" -> DrawPlaneMesh(w)
      [] call.op = "DrawTaperedCylinderMesh" -> DrawTaperedCylinderMesh(w)
      [] call.op = "DrawTorusMesh" -> DrawTorusMesh(w)
      [] call.op = "DrawCylinderMesh" -> DrawCylinderMesh(w)
      [] call.op = "DrawBoxMesh" -> DrawBoxMesh(w)
      [] call.op = "DrawPrismMesh" -> DrawPrismMesh(w)

\* The calls script[k], script[k+1], ... made one after the other on w.  (The
\* test on w1 makes TLC evaluate each call's world before the next call.)
RECURSIVE RunCalls(_, _, _, _)
RunCalls(w, script, uninit, k) ==
    IF k > Len(script)
    THEN w
    ELSE LET w1 == Perform(w, script[k], uninit)
         IN  IF w1.calls = << >> THEN w1 ELSE RunCalls(w1, script, uninit, k + 1)

\* RenderCounter(), lines 549-588: the calls it makes, in order.
RenderCounterCalls ==
    << [op |-> "SetTransformations", tag |-> "", args |-> <<2000, 100, 1000, 0, 0, 0, 0, 0, 200>>],
       [op |-> "SetShaderTexture", tag |-> "counter", args |-> <<>>],
       [op |-> "SetShaderMaterial", tag |-> "ceramic", args |-> <<>>],
       [op |-> "SetTextureUVScale", tag |-> "", args |-> <<200, 200>>],
       [op |-> "DrawPlaneMesh", tag |-> "", args |-> <<>>] >>

\* RenderCounter without its SetShaderMaterial call.
RenderCounter_Mut(w, uninit) ==
    RunCalls(w, SelectSeq(RenderCounterCalls, LAMBDA c : c.op # "SetShaderMaterial"), uninit, 1)

RenderCounter(w, uninit) == RunCalls(w, RenderCounterCalls, uninit, 1)

\* RenderMug(), lines 590-679: the calls it makes, in order.
RenderMugCalls ==
    << [op |-> "SetTransformations", tag |-> "", args |-> <<250, 300, 250, 18000, 0, 0, -700, 250, 0>>],
       [op |-> "SetShaderMaterial", tag |-> "ceramic", args |-> <<>>],
       [op |-> "SetShaderTexture", tag |-> "mug", args |-> <<>>],
       [op |-> "SetTextureUVScale", tag |-> "", args |-> <<100, 100>>],
       [op |-> "DrawTaperedCylinderMesh", tag |-> "", args |-> <<>>],
       [op |-> "SetTransformations", tag |-> "", args |-> <<200, 200, 175, 9000, 0, 0, -700, 250, 0>>],
       [op |-> "SetShaderMaterial", tag |-> "ceramic", args |-> <<>>],
       [op |-> "SetShaderTexture", tag |-> "mug", args |-> <<>>],
       [op |-> "SetTextureUVScale", tag |-> "", args |-> <<100, 100>>],
       [op |-> "DrawTorusMesh", tag |-> "", args |-> <<>>],
       [op |-> "SetTransformations", tag |-> "", args |-> <<180, 90, 100, 0, 0, -3000, -890, 150, 0>>],
       [op |-> "SetShaderMaterial", tag |-> "ceramic", args |-> <<>>],
       [op |-> "SetShaderTexture", tag |-> "mug", args |-> <<>>],
       [op |-> "SetTextureUVScale", tag |-> "", args |-> <<100, 100>>],
       [op |-> "DrawTorusMesh", tag |-> "", args |-> <<>>] >>

RenderMug(w, uninit) == RunCalls(w, RenderMugCalls, uninit, 1)

\* RenderCandle(), lines 681-866: the calls it makes, in order.
RenderCandleCalls ==
    << [op |-> "SetTransformations", tag |-> "", args |-> <<195, 325, 195, 0, 0, 0, -200, 0, 0>>],
       [op |-> "SetShaderTexture", tag |-> "candlewax", args |-> <<>>],
       [op |-> "SetTextureUVScale", tag |-> "", args |-> <<100, 100>>],
       [op |-> "DrawCylinderMesh", tag |-> "", args |-> <<>>],
       [op |-> "SetTransformations", tag |-> "", args |-> <<10, 50, 10, 0, 0, 0, -200, 325, 0>>],
       [op |-> "SetShaderColor", tag |-> "", args |-> <<0, 0, 0, 100>>],
       [op |-> "DrawCylinderMesh", tag |-> "", args |-> <<>>],
       [op |-> "SetTransformations", tag |-> "", args |-> <<200, 375, 200, 0, 0, 0, -200, 0, 0>>],
       [op |-> "SetShaderColor", tag |-> "", args |-> <<70, 70, 80, 30>>],
       [op |-> "SetShaderMaterial", tag |-> "glass", args |-> <<>>],
       [op |-> "DrawCylinderMesh", tag |-> "", args |-> <<>>],
       [op |-> "SetTransformations", tag |-> "", args |-> <<200, 50, 200, 0, 0, 0, -200, 374, 0>>],
       [op |-> "SetShaderColor", tag |-> "", args |-> <<70, 70, 80, 30>>],
       [op |-> "SetShaderMaterial", tag |-> "glass", args |-> <<>>],
       [op |-> "DrawTaperedCylinderMesh", tag |-> "", args |-> <<>>],
       [op |-> "SetTransformations", tag |-> "", args |-> <<175, 85, 175, 0, 0, 0, -200, 410, 0>>],
       [op |-> "SetShaderColor", tag |-> "", args |-> <<95, 95, 95, 70>>],
       [op |-> "SetShaderMaterial", tag |-> "glass", args |-> <<>>],
       [op |-> "DrawCylinderMesh", tag |-> "", args |-> <<>>],
       [op |-> "SetTransformations", tag |-> "", args |-> <<175, 50, 175, 0, 0, 0, -200, 495, 0>>],
       [op |-> "SetShaderColor", tag |-> "", args |-> <<70, 70, 80, 30>>],
       [op |-> "SetShaderMaterial", tag |-> "glass", args |-> <<>>],
       [op |-> "DrawTaperedCylinderMesh", tag |-> "", args |-> <<>>],
       [op |-> "SetTransformations", tag |-> "", args |-> <<100, 100, 300, 9000, 0, 0, -200, 540, 0>>],
       [op |-> "SetShaderColor", tag |-> "", args |-> <<70, 70, 80, 30>>],
       [op |-> "SetShaderMaterial", tag |-> "glass", args |-> <<>>],
       [op |-> "DrawTorusMesh", tag |-> "", args |-> <<>>] >>

RenderCandle(w, uninit) == RunCalls(w, RenderCandleCalls, uninit, 1)

\* RenderRubiks(), lines 868-955: the calls it makes, in order.
RenderRubiksCalls ==
    << [op |-> "SetTransformations", tag |-> "", args |-> <<200, 200, 200, 0, 4500, 0, 300, 100, 200>>],
       [op |-> "SetShaderTexture", tag |-> "box_white", args |-> <<>>],
       [op |-> "SetTextureUVScale", tag |-> "", args |-> <<100, 100>>],
       [op |-> "DrawBoxMesh", tag |-> "", args |-> <<>>],
       [op |-> "SetTransformations", tag |-> "", args |-> <<100, 100, 100, 9000, 0, 13500, 375, 100, 271>>],
       [op |-> "SetShaderTexture", tag |-> "box_red", args |-> <<>>],
       [op |-> "SetTextureUVScale", tag |-> "", args |-> <<100, 100>>],
       [op |-> "DrawPlaneMesh", tag |-> "", args |-> <<>>],
       [op |-> "SetTransformations", tag |-> "", args |-> <<100, 100, 100, 0, 4500, 0, 300, 201, 200>>],
       [op |-> "SetShaderTexture", tag |-> "box_blue", args |-> <<>>],
       [op |-> "SetTextureUVScale", tag |-> "", args |-> <<100, 100>>],
       [op |-> "DrawPlaneMesh", tag |-> "", args |-> <<>>] >>

RenderRubiks(w, uninit) == RunCalls(w, RenderRubiksCalls, uninit, 1)

\* RenderBag(), lines 957-1097: the calls it makes, in order.
RenderBagCalls ==
    << [op |-> "SetTransformations", tag |-> "", args |-> <<395, 260, 230, 0, -2000, 0, 650, 125, 0>>],
       [op |-> "SetShaderTexture", tag |-> "paperbag", args |-> <<>>],
       [op |-> "SetShaderMaterial", tag |-> "cardboard", args |-> <<>>],
       [op |-> "SetTextureUVScale", tag |-> "", args |-> <<100, 100>>],
       [op |-> "DrawBoxMesh", tag |-> "", args |-> <<>>],
       [op |-> "SetTransformations", tag |-> "", args |-> <<235, 395, 450, -9000, 0, -11000, 650, 455, 0>>],
       [op |-> "SetShaderTexture", tag |-> "paperbag", args |-> <<>>],
       [op |-> "SetShaderMaterial", tag |-> "cardboard", args |-> <<>>],
       [op |-> "SetTextureUVScale", tag |-> "", args |-> <<100, 100>>],
       [op |-> "DrawPrismMesh", tag |-> "", args |-> <<>>],
       [op |-> "SetTransformations", tag |-> "", args |-> <<120, 0, 160, 7800, -500, 2000, 620, 450, 65>>],
       [op |-> "SetShaderTexture", tag |-> "label", args |-> <<>>],
       [op |-> "SetTextureUVScale", tag |-> "", args |-> <<100, 100>>],
       [op |-> "DrawPlaneMesh", tag |-> "", args |-> <<>>],
       [op |-> "SetTransformations", tag |-> "", args |-> <<40, 0, 15, 7800, -500, 2000, 490, 625, -30>>],
       [op |-> "SetShaderTexture", tag |-> "bagclip", args |-> <<>>],
       [op |-> "SetTextureUVScale", tag |-> "", args |-> <<100, 100>>],
       [op |-> "DrawPlaneMesh", tag |-> "", args |-> <<>>],
       [op |-> "SetTransformations", tag |-> "", args |-> <<40, 0, 15, 7800, -500, 2000, 791, 625, 72>>],
       [op |-> "SetShaderTexture", tag |-> "bagclip", args |-> <<>>],
       [op |-> "SetTextureUVScale", tag |-> "", args |-> <<100, 100>>],
       [op |-> "DrawPlaneMesh", tag |-> "", args |-> <<>>] >>

RenderBag(w, uninit) == RunCalls(w, RenderBagCalls, uninit, 1)

\* RenderWall(), lines 1099-1138: the calls it makes, in order.
RenderWallCalls ==
    << [op |-> "SetTransformations", tag |-> "", args |-> <<2000, 100, 1000, 9000, 0, 0, 0, 500, -400>>],
       [op |-> "SetShaderMaterial", tag |-> "ceramic", args |-> <<>>],
       [op |-> "SetShaderTexture", tag |-> "wall", args |-> <<>>],
       [op |-> "SetTextureUVScale", tag |-> "", args |-> <<100, 100>>],
       [op |-> "DrawPlaneMesh", tag |-> "", args |-> <<>>] >>

\* RenderWall without its SetTransformations call.
RenderWall_Mut(w, uninit) ==
    RunCalls(w, SelectSeq(RenderWallCalls, LAMBDA c : c.op # "SetTransformations"), uninit, 1)

RenderWall(w, uninit) == RunCalls(w, RenderWallCalls, uninit, 1)
\* RenderScene drawing the wall only when textures are registered.
RenderScene_Mut(w, uninit) ==
    LET w1 == RenderCounter(w, uninit)
        w2 == IF w.m_loadedTextures > 0 THEN RenderWall(w1, uninit) ELSE w1
        w3 == RenderMug(w2, uninit)
        w4 == RenderCandle(w3, uninit)
        w5 == RenderBag(w4, uninit)
        w6 == RenderRubiks(w5, uninit)
    IN  w6

RenderScene(w, uninit) ==
    LET w1 == RenderCounter(w, uninit)
        w2 == RenderWall(w1, uninit)
        w3 == RenderMug(w2, uninit)
        w4 == RenderCandle(w3, uninit)
        w5 == RenderBag(w4, uninit)
        w6 == RenderRubiks(w5, uninit)
    IN  w6

(***************************************************************************)
(* The inputs the methods are called with.                                 *)
(***************************************************************************)
\* What stbi_load can produce: 0 (no image), or an image of 1, 3 or 4 channels.
Images == {0, 1, 3, 4}

\* Tags passed to CreateGLTexture directly, and looked up.
TagInputs == {"logo"}

LookupTags == {"counter", "logo"}

MaterialTagInputs == {"ceramic", "metal"}

\* Two contents an OBJECT_MATERIAL that was never assigned can have.
UninitMaterials ==
    { [NoMaterial EXCEPT !.ambientColor = <<0, 0, 0>>, !.diffuseColor = <<0, 0, 0>>,
                         !.specularColor = <<0, 0, 0>>],
      [NoMaterial EXCEPT !.ambientColor = <<-1, -1, -1>>, !.diffuseColor = <<-1, -1, -1>>,
                         !.specularColor = <<-1, -1, -1>>, !.ambientStrength = -1,
                         !.shininess = -1] }

\* The loads of one LoadSceneTextures call that may fail, and the outcomes of
\* its ten loads: every image has 3 channels, except that one of the loads
\* in BadLoads may produce anything in Images.
BadLoads == {1, 5, 10}

SceneImages ==
    { [k \in 1 .. Len(SceneTextures) |-> IF k = bad THEN image ELSE 3] :
        bad \in BadLoads, image \in Images }

\* The loads, by number, of images that fail: no image, or an unsupported
\* channel count.
FailedLoads(images) == {k \in DOMAIN images : images[k] \notin {3, 4}}

NoArgs == [tag |-> "", image |-> -1, material |-> NoMaterial, failed |-> {}]

NoResult == [ok |-> FALSE, value |-> -1, material |-> NoMaterial]

(***************************************************************************)
(* The state after construction.  The constructor (lines 34-38) stores the *)
(* shader manager it is given (an object, not NULL) and creates the meshes *)
(* object.  It assigns neither m_loadedTextures nor m_textureIDs: their    *)
(* declarations are in SceneManager.h, and the registry and the material   *)
(* list are taken to start empty.                                          *)
(***************************************************************************)
TextureRegistryInit ==
    /\ m_loadedTextures = 0
    /\ m_textureIDs = [i \in MemIndex |-> EmptyTextureInfo]
    /\ m_objectMaterials = << >>

Init ==
    /\ TextureRegistryInit
    /\ m_pShaderManager = "ShaderManager"
    /\ glTextures = {}
    /\ glNextName = 1
    /\ glTextureUnits = [u \in MemIndex |-> 0]
    /\ imageBuffers = 0
    /\ meshLoads = [m \in Meshes |-> 0]
    /\ calls = << >>
    /\ lastOp = [name |-> "SceneManager", args |-> NoArgs, res |-> NoResult]
    /\ nCalls = 0

\* The state after a method that took World to w, called as op.
Return(w, name, args, res) ==
    /\ nCalls < MaxCalls
    /\ nCalls' = nCalls + 1
    /\ m_loadedTextures' = w.m_loadedTextures
    /\ m_textureIDs' = w.m_textureIDs
    /\ m_objectMaterials' = w.m_objectMaterials
    /\ m_pShaderManager' = w.m_pShaderManager
    /\ glTextures' = w.glTextures
    /\ glNextName' = w.glNextName
    /\ glTextureUnits' = w.glTextureUnits
    /\ imageBuffers' = w.imageBuffers
    /\ meshLoads' = w.meshLoads
    /\ calls' = w.calls
    /\ lastOp' = [name |-> name, args |-> args, res |-> res]

CallCreateGLTexture ==
    \E tag \in TagInputs, image \in Images, lands \in BOOLEAN :
        /\ m_loadedTextures < MaxLoaded
        /\ LET w == CreateGLTexture(World, "image.jpg", tag, image, lands)
           IN  Return(w, "CreateGLTexture", [NoArgs EXCEPT !.tag = tag, !.image = image],
                      [NoResult EXCEPT !.ok = w.ret, !.value = glNextName])

CallBindGLTextures ==
    Return(BindGLTextures(World), "BindGLTextures", NoArgs, NoResult)

CallDestroyGLTextures ==
    \E lands \in BOOLEAN :
        /\ glNextName + m_loadedTextures <= MaxGLNames + 1
        /\ Return(DestroyGLTextures(World, lands), "DestroyGLTextures", NoArgs, NoResult)

CallFindTextureID ==
    \E tag \in LookupTags :
        Return(World, "FindTextureID", [NoArgs EXCEPT !.tag = tag],
               [NoResult EXCEPT !.value = FindTextureID(World, tag)])

CallFindTextureSlot ==
    \E tag \in LookupTags :
        Return(World, "FindTextureSlot", [NoArgs EXCEPT !.tag = tag],
               [NoResult EXCEPT !.value = FindTextureSlot(World, tag)])

CallFindMaterial ==
    \E tag \in MaterialTagInputs, material \in UninitMaterials :
        LET found == FindMaterial(World, tag, material)
        IN  Return(World, "FindMaterial", [NoArgs EXCEPT !.tag = tag, !.material = material],
                   [NoResult EXCEPT !.ok = found.ret, !.material = found.material])

CallSetTransformations ==
    Return(SetTransformations(World, <<100, 100, 100>>, 0, 4500, 0, <<0, 100, 0>>),
           "SetTransformations", NoArgs, NoResult)

CallSetShaderColor ==
    Return(SetShaderColor(World, 100, 0, 0, 100), "SetShaderColor", NoArgs, NoResult)

CallSetShaderTexture ==
    \E tag \in LookupTags :
        Return(SetShaderTexture(World, tag), "SetShaderTexture",
               [NoArgs EXCEPT !.tag = tag], NoResult)

CallSetTextureUVScale ==
    Return(SetTextureUVScale(World, 100, 100), "SetTextureUVScale", NoArgs, NoResult)

CallSetShaderMaterial ==
    \E tag \in MaterialTagInputs, uninit \in UninitMaterials :
        Return(SetShaderMaterial(World, tag, uninit), "SetShaderMaterial",
               [NoArgs EXCEPT !.tag = tag, !.material = uninit], NoResult)

CallLoadSceneTextures ==
    \E images \in SceneImages, lands \in BOOLEAN :
        /\ m_loadedTextures + Len(SceneTextures) <= MaxLoaded
        /\ Return(LoadSceneTextures(World, images, lands), "LoadSceneTextures",
                  [NoArgs EXCEPT !.failed = FailedLoads(images)], NoResult)

CallDefineObjectMaterials ==
    /\ Len(m_objectMaterials) + 3 <= MaxMaterials
    /\ Return(DefineObjectMaterials(World), "DefineObjectMaterials", NoArgs, NoResult)

CallSetupSceneLights ==
    Return(SetupSceneLights(World), "SetupSceneLights", NoArgs, NoResult)

CallPrepareScene ==
    \E images \in SceneImages, lands \in BOOLEAN :
        /\ m_loadedTextures + Len(SceneTextures) <= MaxLoaded
        /\ Len(m_objectMaterials) + 3 <= MaxMaterials
        /\ Return(PrepareScene(World, images, lands), "PrepareScene",
                  [NoArgs EXCEPT !.failed = FailedLoads(images)], NoResult)

CallRenderScene ==
    \E uninit \in UninitMaterials :
        Return(RenderScene(World, uninit), "RenderScene", NoArgs, NoResult)

Next ==
    \/ CallCreateGLTexture
    \/ CallBindGLTextures
    \/ CallDestroyGLTextures
    \/ CallFindTextureID
    \/ CallFindTextureSlot
    \/ CallFindMaterial
    \/ CallSetTransformations
    \/ CallSetShaderColor
    \/ CallSetShaderTexture
    \/ CallSetTextureUVScale
    \/ CallSetShaderMaterial
    \/ CallLoadSceneTextures
    \/ CallDefineObjectMaterials
    \/ CallSetupSceneLights
    \/ CallPrepareScene
    \/ CallRenderScene

Spec == Init /\ [][Next]_vars

(***************************************************************************)
(* Properties.                                                             *)
(***************************************************************************)
DrawFns ==
    {"DrawPlaneMesh", "DrawTaperedCylinderMesh", "DrawTorusMesh", "DrawCylinderMesh",
     "DrawBoxMesh", "DrawPrismMesh"}

\* The positions of the mesh draws in the last method's call log, and for a
\* draw at position d the positions after the previous draw (or the start).
Draws == {i \in 1 .. Len(calls) : calls[i].fn \in DrawFns}

\* The last draw at or before position i of the log (0: none).
RECURSIVE LastDrawUpTo(_)
LastDrawUpTo(i) ==
    IF i = 0 THEN 0 ELSE IF calls[i].fn \in DrawFns THEN i ELSE LastDrawUpTo(i - 1)

Before(d) == (LastDrawUpTo(d - 1) + 1) .. (d - 1)

\* The draw at position d is the n-th draw of the log.
Ordinal(d) == Cardinality({e \in Draws : e <= d})

Registered(tag) == {i \in 0 .. (m_loadedTextures - 1) : m_textureIDs[i].tag = tag}

Least(S) == CHOOSE i \in S : \A j \in S : i <= j

\* C1: a CreateGLTexture call that loads an image of 3 or 4 channels returns
\* true, stores the new texture ID with the tag at the index m_loadedTextures
\* had before the call, adds exactly 1 to m_loadedTextures and leaves every
\* earlier entry as it was.
C1_CreateRegistersAtNextIndex ==
    [][ (lastOp'.name = "CreateGLTexture" /\ lastOp'.args.image \in {3, 4}) =>
            /\ lastOp'.res.ok
            /\ m_loadedTextures' = m_loadedTextures + 1
            /\ m_textureIDs'[m_loadedTextures] =
                   [ID |-> lastOp'.res.value, tag |-> lastOp'.args.tag]
            /\ \A i \in 0 .. (m_loadedTextures - 1) : m_textureIDs'[i] = m_textureIDs[i]
      ]_vars

\* C2: a CreateGLTexture call that fails (no image, or an image whose channel
\* count is neither 3 nor 4) returns false and leaves m_loadedTextures and
\* every registry entry as they were.
C2_FailedCreateLeavesRegistry ==
    [][ (lastOp'.name = "CreateGLTexture" /\ lastOp'.args.image \notin {3, 4}) =>
            /\ ~lastOp'.res.ok
            /\ m_loadedTextures' = m_loadedTextures
            /\ m_textureIDs' = m_textureIDs
      ]_vars

\* C2 witness: a CreateGLTexture call on an image of one channel has returned
\* false with textures registered.
C2_Witness ==
    /\ lastOp.name = "CreateGLTexture"
    /\ lastOp.args.image = 1
    /\ ~lastOp.res.ok
    /\ m_loadedTextures > 0

\* C3: m_loadedTextures never exceeds the 16 texture slots.
C3_LoadedWithinSlots == m_loadedTextures <= MaxTextureSlots

\* C4: for every tag, FindTextureSlot returns the smallest index below
\* m_loadedTextures whose tag is the tag and FindTextureID the ID stored at
\* that index; both return -1 exactly when no such index exists.  The Find
\* calls made returned these values.
C4_FindReturnsFirstMatch ==
    /\ \A tag \in LookupTags \cup {SceneTextures[k].tag : k \in 1 .. Len(SceneTextures)} :
          IF Registered(tag) = {}
          THEN FindTextureSlot(World, tag) = -1 /\ FindTextureID(World, tag) = -1
          ELSE /\ FindTextureSlot(World, tag) = Least(Registered(tag))
               /\ FindTextureID(World, tag) = m_textureIDs[Least(Registered(tag))].ID
               /\ FindTextureID(World, tag) # -1
    /\ lastOp.name = "FindTextureSlot" =>
          lastOp.res.value = FindTextureSlot(World, lastOp.args.tag)
    /\ lastOp.name = "FindTextureID" =>
          lastOp.res.value = FindTextureID(World, lastOp.args.tag)

\* C4 witness: "counter" is registered twice and FindTextureSlot("counter")
\* has returned 0.
C4_Witness ==
    /\ lastOp.name = "FindTextureSlot"
    /\ lastOp.args.tag = "counter"
    /\ lastOp.res.value = 0
    /\ Cardinality(Registered("counter")) = 2

\* C5: FindMaterial returns true exactly when a preset of the list has the
\* tag, and then the caller's material holds the five values of the first
\* such preset.
C5_FindMaterialTrueIffPresent ==
    lastOp.name = "FindMaterial" =>
        LET hits == {i \in 1 .. Len(m_objectMaterials) :
                        m_objectMaterials[i].tag = lastOp.args.tag}
        IN  /\ lastOp.res.ok <=> hits # {}
            /\ hits # {} =>
                  LET first == m_objectMaterials[Least(hits)]
                      out == lastOp.res.material
                  IN  /\ out.ambientColor = first.ambientColor
                      /\ out.ambientStrength = first.ambientStrength
                      /\ out.diffuseColor = first.diffuseColor
                      /\ out.specularColor = first.specularColor
                      /\ out.shininess = first.shininess

\* C6: a DestroyGLTextures call frees every texture registered in slots
\* 0 .. m_loadedTextures-1 and creates no texture.
C6_DestroyFreesRegistered ==
    [][ lastOp'.name = "DestroyGLTextures" =>
            /\ \A i \in 0 .. (m_loadedTextures - 1) : m_textureIDs[i].ID \notin glTextures'
            /\ glTextures' \subseteq glTextures
      ]_vars

\* C7: in RenderScene every mesh draw has, since the previous draw (or the
\* start), exactly one SetTransformations call and at least one
\* SetShaderColor or SetShaderTexture call, which set the model matrix and
\* the bUseTexture flag in the shader.
C7_TransformAndColorBeforeEachDraw ==
    lastOp.name = "RenderScene" =>
        \A d \in Draws :
            /\ Cardinality({i \in Before(d) : calls[i].fn = "SetTransformations"}) = 1
            /\ \E i \in Before(d) : calls[i].fn \in {"SetShaderColor", "SetShaderTexture"}
            /\ \E i \in Before(d) : calls[i].fn = "setMat4Value" /\ calls[i].name = "model"
            /\ \E i \in Before(d) : calls[i].fn = "setIntValue" /\ calls[i].name = "bUseTexture"

\* C7 witness: RenderScene has run and made its 20 draws.
C7_Witness ==
    /\ lastOp.name = "RenderScene"
    /\ Cardinality(Draws) = 20

\* C8 as stated: in RenderScene every mesh draw has a SetShaderMaterial call
\* since the previous draw.
C8_MaterialBeforeEachDraw ==
    lastOp.name = "RenderScene" =>
        \A d \in Draws : \E i \in Before(d) : calls[i].fn = "SetShaderMaterial"

\* The draws of RenderScene, by number, that have a SetShaderMaterial call of
\* their own.
DrawsWithMaterial ==
    {Ordinal(d) : d \in {e \in Draws : \E i \in Before(e) : calls[i].fn = "SetShaderMaterial"}}

\* C8 amended: in RenderScene 12 of the 20 draws have a SetShaderMaterial call
\* since the previous draw: the counter (1), the wall (2), the mug (3-5), the
\* glass parts of the candle (8-12), the bag's box and prism (13, 14).  The
\* other 8 (candle wax 6 and wick 7, the bag's label and clips 15-17, the
\* Rubik's box 18-20) have none, and are drawn after an earlier draw's
\* SetShaderMaterial call of the same RenderScene.
C8_MaterialBeforeTwelveDraws ==
    lastOp.name = "RenderScene" =>
        /\ DrawsWithMaterial = {1, 2, 3, 4, 5, 8, 9, 10, 11, 12, 13, 14}
        /\ \A d \in Draws : \E i \in 1 .. (d - 1) : calls[i].fn = "SetShaderMaterial"

\* C8 witness: RenderScene has run with materials defined, material values
\* were pushed, and the sixth draw (the candle wax) has no SetShaderMaterial
\* call of its own.
C8_Witness ==
    /\ lastOp.name = "RenderScene"
    /\ Len(m_objectMaterials) > 0
    /\ \E i \in 1 .. Len(calls) : calls[i].name = "material"
    /\ \E d \in Draws :
          /\ Ordinal(d) = 6
          /\ \A i \in Before(d) : calls[i].fn # "SetShaderMaterial"

\* The calls of the last method that write a field of a light source.
LightWrites == {i \in 1 .. Len(calls) : calls[i].name = "lightSources"}

LightFields ==
    {"position", "ambientColor", "diffuseColor", "specularColor", "focalStrength",
     "specularIntensity"}

\* C9: SetupSceneLights sets bUseLighting to true and writes each of the six
\* parameters of the light sources 0, 1 and 2 (once each), and of no other
\* light source.
C9_ThreeLightsConfigured ==
    lastOp.name \in {"SetupSceneLights", "PrepareScene"} =>
        /\ \E i \in 1 .. Len(calls) :
              /\ calls[i].fn = "setBoolValue"
              /\ calls[i].name = "bUseLighting"
              /\ calls[i].args = <<1>>
        /\ \A i \in LightWrites : calls[i].index \in {0, 1, 2} /\ calls[i].field \in LightFields
        /\ \A n \in {0, 1, 2}, f \in LightFields :
              Cardinality({i \in LightWrites : calls[i].index = n /\ calls[i].field = f}) = 1

\* C9 witness: SetupSceneLights has run and made 19 calls on the shader manager.
C9_Witness ==
    /\ lastOp.name = "SetupSceneLights"
    /\ Len(calls) = 19

RenderOps ==
    {"RenderScene", "SetTransformations", "SetShaderColor", "SetShaderTexture",
     "SetTextureUVScale", "SetShaderMaterial", "FindTextureSlot", "FindMaterial"}

\* C10: RenderScene and the methods it calls leave m_loadedTextures, every
\* registry entry and the material list as they were.
C10_RenderLeavesRegistries ==
    [][ lastOp'.name \in RenderOps =>
            /\ m_loadedTextures' = m_loadedTextures
            /\ m_textureIDs' = m_textureIDs
            /\ m_objectMaterials' = m_objectMaterials
      ]_vars

\* C10 witness: RenderScene has run on a prepared scene (ten textures, three
\* materials) and pushed sampler values.
C10_Witness ==
    /\ lastOp.name = "RenderScene"
    /\ m_loadedTextures = 10
    /\ Len(m_objectMaterials) = 3
    /\ \E i \in 1 .. Len(calls) : calls[i].fn = "setSampler2DValue" /\ calls[i].args = <<9>>

\* The calls RenderScene itself makes (not the shader calls made inside
\* them): the entries of a call log that are Set... calls or mesh draws.
MethodFns ==
    {"SetTransformations", "SetShaderColor", "SetShaderTexture", "SetTextureUVScale",
     "SetShaderMaterial"} \cup DrawFns

IsMethodCall(c) == c.fn \in MethodFns

IsLookCall(c) ==
    c.fn \in {"SetShaderColor", "SetShaderTexture", "SetShaderMaterial"} \cup DrawFns

\* A colour, texture, material or draw call as a pair: what is set or drawn,
\* and the tag or the mesh.
LookOf(log) ==
    LET look == SelectSeq(log, IsLookCall)
    IN  [n \in 1 .. Len(look) |->
            IF look[n].fn \in DrawFns THEN <<"draw", look[n].name>>
            ELSE IF look[n].fn = "SetShaderTexture" THEN <<"texture", look[n].name>>
            ELSE IF look[n].fn = "SetShaderMaterial" THEN <<"material", look[n].name>>
            ELSE <<"color", "">>]

\* The 20 draws of a frame in order, each after the colour, texture and
\* material calls made for it: counter, wall, mug (3), candle (7), bag (5),
\* Rubik's box (3).
FrameLook ==
    << <<"texture", "counter">>, <<"material", "ceramic">>, <<"draw", "Plane">>,
       <<"material", "ceramic">>, <<"texture", "wall">>, <<"draw", "Plane">>,
       <<"material", "ceramic">>, <<"texture", "mug">>, <<"draw", "TaperedCylinder">>,
       <<"material", "ceramic">>, <<"texture", "mug">>, <<"draw", "Torus">>,
       <<"material", "ceramic">>, <<"texture", "mug">>, <<"draw", "Torus">>,
       <<"texture", "candlewax">>, <<"draw", "Cylinder">>,
       <<"color", "">>, <<"draw", "Cylinder">>,
       <<"color", "">>, <<"material", "glass">>, <<"draw", "Cylinder">>,
       <<"color", "">>, <<"material", "glass">>, <<"draw", "TaperedCylinder">>,
       <<"color", "">>, <<"material", "glass">>, <<"draw", "Cylinder">>,
       <<"color", "">>, <<"material", "glass">>, <<"draw", "TaperedCylinder">>,
       <<"color", "">>, <<"material", "glass">>, <<"draw", "Torus">>,
       <<"texture", "paperbag">>, <<"material", "cardboard">>, <<"draw", "Box">>,
       <<"texture", "paperbag">>, <<"material", "cardboard">>, <<"draw", "Prism">>,
       <<"texture", "label">>, <<"draw", "Plane">>,
       <<"texture", "bagclip">>, <<"draw", "Plane">>,
       <<"texture", "bagclip">>, <<"draw", "Plane">>,
       <<"texture", "box_white">>, <<"draw", "Box">>,
       <<"texture", "box_red">>, <<"draw", "Plane">>,
       <<"texture", "box_blue">>, <<"draw", "Plane">> >>

\* The object as constructed, and the calls RenderScene makes on it.
NewWorld ==
    [m_loadedTextures |-> 0,
     m_textureIDs |-> [i \in MemIndex |-> EmptyTextureInfo],
     m_objectMaterials |-> << >>,
     m_pShaderManager |-> "ShaderManager",
     glTextures |-> {},
     glNextName |-> 1,
     glTextureUnits |-> [u \in MemIndex |-> 0],
     imageBuffers |-> 0,
     meshLoads |-> [m \in Meshes |-> 0],
     calls |-> << >>,
     ret |-> FALSE]

FirstFrame ==
    SelectSeq(RenderScene(NewWorld, CHOOSE u \in UninitMaterials : TRUE).calls, IsMethodCall)

\* C11: every RenderScene call makes the same calls with the same arguments
\* (transforms, colours, texture tags, material tags, UV scales, draws) as
\* the first RenderScene call on a new object, whatever was called before;
\* they are 20 draws in the order counter, wall, mug (3), candle (7), bag (5),
\* Rubik's box (3).
C11_RenderSceneFixed ==
    lastOp.name = "RenderScene" =>
        /\ SelectSeq(calls, IsMethodCall) = FirstFrame
        /\ LookOf(calls) = FrameLook
        /\ Cardinality(Draws) = 20

\* C11 witness: RenderScene has run as the third call, on an object with
\* textures registered and materials defined.
C11_Witness ==
    /\ lastOp.name = "RenderScene"
    /\ nCalls = 3
    /\ m_loadedTextures > 0
    /\ Len(m_objectMaterials) > 0

\* The tags of the scene's textures in the order the claims list them, and
\* the tags of its material presets.
LoadOrderTags ==
    <<"counter", "wall", "box_white", "box_red", "box_blue", "paperbag", "bagclip",
      "label", "candlewax", "mug">>

PresetTags == <<"glass", "ceramic", "cardboard">>

Distinct(seq) == \A i, j \in DOMAIN seq : seq[i] = seq[j] => i = j

\* C12: a PrepareScene call on an object with no texture registered and no
\* material defined, in which all ten loads succeed, leaves exactly ten
\* registry entries, tagged counter, wall, box_white, box_red, box_blue,
\* paperbag, bagclip, label, candlewax, mug at indices 0..9, pairwise
\* distinct, and exactly three presets tagged glass, ceramic, cardboard,
\* pairwise distinct.
C12_PrepareSceneRegistries ==
    [][ ( /\ m_loadedTextures = 0
          /\ m_objectMaterials = << >>
          /\ lastOp'.name = "PrepareScene"
          /\ lastOp'.args.failed = {} )
        => /\ m_loadedTextures' = 10
           /\ \A i \in 0 .. 9 : m_textureIDs'[i].tag = LoadOrderTags[i + 1]
           /\ \A i, j \in 0 .. 9 : m_textureIDs'[i].tag = m_textureIDs'[j].tag => i = j
           /\ Len(m_objectMaterials') = 3
           /\ [n \in 1 .. 3 |-> m_objectMaterials'[n].tag] = PresetTags
           /\ Distinct(PresetTags) /\ Distinct(LoadOrderTags) ]_vars

\* C12 witness: PrepareScene has run once, as the first call, with every
\* load succeeding.
C12_Witness ==
    /\ lastOp.name = "PrepareScene"
    /\ lastOp.args.failed = {}
    /\ nCalls = 1
    /\ m_loadedTextures = 10
    /\ Len(m_objectMaterials) = 3

\* What the claims about a LoadSceneTextures call with one failing load say
\* of the state after it: the count is the number of loads that succeeded,
\* the textures registered are bound, the failed tag resolves to -1 and every
\* other scene tag resolves to a slot below the count.
AfterSingleFailure ==
    /\ m_loadedTextures = Len(SceneTextures) - 1
    /\ \A i \in 0 .. (m_loadedTextures - 1) : glTextureUnits[i] = m_textureIDs[i].ID
    /\ \A k \in 1 .. Len(SceneTextures) :
          IF k \in lastOp.args.failed
          THEN FindTextureSlot(World, SceneTextures[k].tag) = -1
          ELSE FindTextureSlot(World, SceneTextures[k].tag) \in 0 .. (m_loadedTextures - 1)

\* C13 as stated: after any LoadSceneTextures call in which a single load
\* fails, m_loadedTextures is the number of successful loads (9), the
\* textures loaded are bound, the failed tag resolves to slot -1 and every
\* other scene tag resolves to a slot in 0..m_loadedTextures-1.
C13_SingleFailureLoad ==
    (lastOp.name = "LoadSceneTextures" /\ Cardinality(lastOp.args.failed) = 1)
        => AfterSingleFailure

\* C13 amended: the same, for a LoadSceneTextures call made while no
\* texture is registered (m_loadedTextures = 0 before the call).
C13_SingleFailureLoadFromEmpty ==
    [][ ( /\ m_loadedTextures = 0
          /\ lastOp'.name = "LoadSceneTextures"
          /\ Cardinality(lastOp'.args.failed) = 1 )
        => AfterSingleFailure' ]_vars

\* C13 witness: LoadSceneTextures has run with a load other than the last
\* failing, and left nine textures registered.
C13_Witness ==
    /\ lastOp.name = "LoadSceneTextures"
    /\ Cardinality(lastOp.args.failed) = 1
    /\ 10 \notin lastOp.args.failed
    /\ m_loadedTextures = 9
    /\ FindTextureSlot(World, "mug") = 8

\* The sampler value SetShaderTexture(tag) pushes in the current state: the
\* args of the setSampler2DValue call it makes.
SamplerPushed(tag) ==
    LET log == SetShaderTexture([World EXCEPT !.calls = << >>], tag).calls
        n == CHOOSE i \in DOMAIN log : log[i].fn = "setSampler2DValue"
    IN  log[n].args[1]

\* C14: after LoadSceneTextures (alone or inside PrepareScene), texture
\* unit i holds the texture ID registered at index i for every
\* i < m_loadedTextures, and for every registered tag the sampler value
\* SetShaderTexture pushes is the slot FindTextureSlot returns, a unit that
\* holds the texture ID registered under that tag.
C14_SamplerIsBoundUnit ==
    lastOp.name \in {"LoadSceneTextures", "PrepareScene"} =>
        /\ \A i \in 0 .. (m_loadedTextures - 1) : glTextureUnits[i] = m_textureIDs[i].ID
        /\ \A tag \in LookupTags \cup {SceneTextures[k].tag : k \in 1 .. Len(SceneTextures)} :
              Registered(tag) # {} =>
                /\ SamplerPushed(tag) = FindTextureSlot(World, tag)
                /\ SamplerPushed(tag) \in Registered(tag)
                /\ glTextureUnits[SamplerPushed(tag)] = FindTextureID(World, tag)

\* C14 witness: LoadSceneTextures has run with textures registered before it,
\* and the sampler pushed for "mug" is a unit above the first ten.
C14_Witness ==
    /\ lastOp.name = "LoadSceneTextures"
    /\ m_loadedTextures > 10
    /\ Registered("mug") # {}
    /\ SamplerPushed("mug") >= 9

\* The sampler values pushed, and the tags passed to SetShaderTexture, by the
\* last method.
SamplersPushed ==
    {calls[i].args[1] : i \in {j \in DOMAIN calls : calls[j].fn = "setSampler2DValue"}}

TextureTagsPassed ==
    {calls[i].name : i \in {j \in DOMAIN calls : calls[j].fn = "SetShaderTexture"}}

\* C15: when RenderScene runs right after a PrepareScene in which every load
\* succeeded, every tag it passes to SetShaderTexture is registered and every
\* sampler value pushed is in 0..m_loadedTextures-1, never -1.
C15_RenderSamplersRegistered ==
    [][ ( /\ lastOp.name = "PrepareScene"
          /\ lastOp.args.failed = {}
          /\ lastOp'.name = "RenderScene" )
        => /\ TextureTagsPassed' # {}
           /\ \A tag \in TextureTagsPassed' : Registered(tag)' # {}
           /\ \A v \in SamplersPushed' : v \in 0 .. (m_loadedTextures' - 1) ]_vars

\* The material values pushed to the shader, and the tags passed to
\* SetShaderMaterial, by the last method.
MaterialPushes == {i \in DOMAIN calls : calls[i].name = "material"}

MaterialTagsPassed ==
    {calls[i].name : i \in {j \in DOMAIN calls : calls[j].fn = "SetShaderMaterial"}}

DefinedTags == {m_objectMaterials[n].tag : n \in DOMAIN m_objectMaterials}

\* C16: SetShaderMaterial(tag) pushes material values exactly when a preset
\* with that tag is in the material list, and then the values of that
\* preset; for a tag that is not in the list it pushes nothing; and every
\* material tag RenderScene passes is one of glass, ceramic, cardboard.
C16_MaterialPushedOnlyIfDefined ==
    /\ lastOp.name = "SetShaderMaterial" =>
          IF lastOp.args.tag \in DefinedTags
          THEN Cardinality(MaterialPushes) = 5
          ELSE MaterialPushes = {}
    /\ lastOp.name = "RenderScene" =>
          MaterialTagsPassed \subseteq {PresetTags[n] : n \in DOMAIN PresetTags}

\* The meshes drawn by the last method.
DrawnMeshes == {calls[d].name : d \in Draws}

\* C17: a PrepareScene call loads each of the six meshes exactly once, and a
\* RenderScene call made once PrepareScene has run (meshes are loaded nowhere
\* else) draws exactly those six mesh types, each of them loaded.
C17_DrawnMeshesLoaded ==
    [][ /\ lastOp'.name = "PrepareScene" =>
              \A m \in Meshes : meshLoads'[m] = meshLoads[m] + 1
        /\ (lastOp'.name = "RenderScene" /\ \E m \in Meshes : meshLoads[m] > 0) =>
              /\ DrawnMeshes' = {"Plane", "TaperedCylinder", "Torus", "Cylinder", "Box", "Prism"}
              /\ \A m \in DrawnMeshes' : m \in Meshes /\ meshLoads'[m] >= 1 ]_vars

\* C17 witness: RenderScene has run after one PrepareScene, every mesh
\* loaded once and every mesh type drawn.
C17_Witness ==
    /\ lastOp.name = "RenderScene"
    /\ \A m \in Meshes : meshLoads[m] = 1
    /\ DrawnMeshes = Meshes

\* C18: a CreateGLTexture call that loaded the image data returns with the
\* image buffer freed (as many buffers allocated as before the call) and
\* with every texture object it generated either registered in the registry
\* or released.
C18_CreateReleasesOnReturn ==
    [][ (lastOp'.name = "CreateGLTexture" /\ lastOp'.args.image # 0) =>
            /\ imageBuffers' = imageBuffers
            /\ \A t \in glTextures' \ glTextures :
                  \E i \in 0 .. (m_loadedTextures' - 1) : m_textureIDs'[i].ID = t ]_vars

====
